---------------------------- MODULE Spec2Model ----------------------------
(***************************************************************************)
(* A model of the two notebooks of the repository.                         *)
(*                                                                         *)
(*   lstm_seq2seq.ipynb        character-level seq2seq translation:        *)
(*                             the data preparation cell (SpecPrep) and    *)
(*                             the inference function decode_sequence      *)
(*                             (SpecDecode, FairSpecDecode).               *)
(*   keras_introduction.ipynb  the MLP classifier: model.fit with the      *)
(*                             EarlyStopping callback (SpecFit,            *)
(*                             FairSpecFit).                               *)
(*                                                                         *)
(* Each specification runs one of these; the variables of the others keep  *)
(* their initial values.  Characters are their code points (Python sorts   *)
(* and compares characters by code point).  Arrays are functions over      *)
(* 0-based indices, as in numpy.  The framework's models (encoder_model,   *)
(* decoder_model) are opaque: a call of predict returns any value of the   *)
(* right shape, and the validation loss of an epoch is any value.          *)
(***************************************************************************)
EXTENDS Integers, Sequences, FiniteSets, TLC

VARIABLES
    pc,                      \* the statement the running cell / function is at
    \* ---- globals of lstm_seq2seq.ipynb read by decode_sequence
    target_characters,       \* sorted list of the distinct target characters
    num_decoder_tokens,      \* len(target_characters)
    max_decoder_seq_length,  \* max length of a target text
    \* ---- decode_sequence: argument, locals and return value
    input_seq,
    states_value,
    target_seq,
    stop_condition,
    decoded_sentence,
    output_tokens,
    h,
    c,
    sampled_token_index,
    sampled_char,
    returned,
    \* ---- record of the calls made into the framework by decode_sequence
    encoder_calls,           \* the arguments of encoder_model.predict, in order
    encoder_states,          \* what the (only) encoder call returned
    decoder_call_count,      \* number of decoder_model.predict calls so far
    last_decoder_call,       \* the arguments of the latest decoder call
    \* ---- lstm_seq2seq.ipynb: the data preparation cell
    file_text,               \* the content of the data file
    lines,                   \* f.read().split("\n")
    line_index,              \* number of iterations of the loading loop so far
    input_texts,
    target_texts,
    input_char_set,          \* input_characters while it is a set
    target_char_set,         \* target_characters while it is a set
    input_characters,        \* sorted list of the distinct input characters
    num_encoder_tokens,
    max_encoder_seq_length,
    encoder_input_data,
    decoder_input_data,
    decoder_target_data,
    exception,               \* the exception that ended the cell, "" if none
    \* ---- keras_introduction.ipynb: model.fit and its EarlyStopping callback
    epoch,                   \* the loop variable of fit (0-based)
    epochs_run,              \* number of epochs trained and validated
    stop_training,           \* model.stop_training
    wait,                    \* EarlyStopping.wait
    best,                    \* EarlyStopping.best
    val_loss,                \* the val_loss logged at the end of the last epoch
    \* ---- what the logged val_loss values say, kept apart from the callback
    hist_min,                \* the smallest val_loss logged so far
    hist_min_epoch,          \* the epoch (1-based) that logged it first
    hist_stale,              \* some 7 consecutive epochs brought no new minimum
    \* ---- keras_introduction.ipynb: the cells around model.fit
    X_train_shape,           \* X_train.shape, <<>> before the data is loaded
    X_test_shape,            \* X_test.shape
    X_normalized,            \* X_train and X_test hold normalized values
    Y_columns,               \* columns of Y_train and Y_test, 0 before they exist
    mlp_model,               \* "none", "defined" or "compiled"
    evaluated,               \* score holds the result of model.evaluate
    predicted,               \* pred holds the result of model.predict
    files,                   \* the files written so far
    weights_loaded,          \* model.load_weights has returned
    \* ---- lstm_seq2seq.ipynb: the training cell and the sampling models
    s2s_model,               \* the object the name model is bound to
    s2s_epoch,               \* number of epochs fit has run
    s2s_val_loss,            \* the val_loss of the latest epoch
    s2s_stop_training,       \* model.stop_training
    s2s_worsened,            \* some epoch's val_loss was above the previous one
    s2s_saved,               \* the model stored under "s2s"
    encoder_model,           \* the model encoder_model takes its layers from
    decoder_model            \* the model decoder_model takes its layers from

decodeVars == <<input_seq, states_value, target_seq, stop_condition,
                decoded_sentence, output_tokens, h, c, sampled_token_index,
                sampled_char, returned, encoder_calls, encoder_states,
                decoder_call_count, last_decoder_call>>
envVars == <<target_characters, num_decoder_tokens, max_decoder_seq_length>>
fitVars == <<epoch, epochs_run, stop_training, wait, best, val_loss,
             hist_min, hist_min_epoch, hist_stale>>
prepVars == <<file_text, lines, line_index, input_texts, target_texts,
              input_char_set, target_char_set, input_characters,
              num_encoder_tokens, max_encoder_seq_length, encoder_input_data,
              decoder_input_data, decoder_target_data, exception>>
mlpVars == <<X_train_shape, X_test_shape, X_normalized, Y_columns, mlp_model,
             evaluated, predicted, files, weights_loaded>>
s2sVars == <<s2s_model, s2s_epoch, s2s_val_loss, s2s_stop_training,
             s2s_worsened, s2s_saved, encoder_model, decoder_model>>
vars == <<pc, envVars, prepVars, decodeVars, fitVars, mlpVars, s2sVars>>

---------------------------------------------------------------------------
(* Characters *)

TAB == 9
NEWLINE == 10
SPACE == 32
\* The texts of the model are made of tab, newline, space and "a" (97).
\* The sets of target characters decode_sequence is run with.
TargetCharSets == {{TAB, NEWLINE}, {TAB, NEWLINE, SPACE}, {TAB, NEWLINE, 97}}

(* Bounds of the model *)

\* Longest target text ("\t" + field + "\n") the model considers.
MaxSeqLen == 3
\* The values of an LSTM state vector (h or c).  Two values tell the state a
\* call returned from the one returned before it and from the encoder's.
StateVals == {0, 1}
\* The values of one component of the decoder's softmax output.  Two levels
\* give every argmax pattern: a unique maximum, ties, and all-equal.
Scores == {0, 1}
\* Identities of the input sequences handed to decode_sequence.
InputSeqs == {0, 1}

\* The value of a local that has not been assigned yet.
Unset == -1

---------------------------------------------------------------------------
(* Pure helpers *)

Min(S) == CHOOSE x \in S : \A y \in S : x <= y

\* sorted(list(S)) for a set of characters
RECURSIVE Sorted(_)
Sorted(S) == IF S = {} THEN <<>>
             ELSE <<Min(S)>> \o Sorted(S \ {Min(S)})

\* An enumeration that starts at 1
TokenIndexFromOne(chars, ch) == CHOOSE k \in 1..Len(chars) : chars[k] = ch

\* dict([(char, i) for i, char in enumerate(chars)])[ch]
TokenIndex(chars, ch) == (CHOOSE k \in 1..Len(chars) : chars[k] = ch) - 1

target_token_index(ch) == TokenIndex(target_characters, ch)

\* dict((i, char) for char, i in target_token_index.items())[i]
reverse_target_char_index(i) ==
    CHOOSE ch \in {target_characters[k] : k \in 1..Len(target_characters)} :
        target_token_index(ch) = i

input_token_index(ch) == TokenIndex(input_characters, ch)

\* dict((i, char) for char, i in input_token_index.items())[i]
reverse_input_char_index(i) ==
    CHOOSE ch \in {input_characters[k] : k \in 1..Len(input_characters)} :
        input_token_index(ch) = i

\* np.zeros((1, 1, n)) with [0, 0, i] = 1.0: the single timestep's vector
OneHot(n, i) == [k \in 0..(n - 1) |-> IF k = i THEN 1 ELSE 0]

\* np.argmax replaced by np.argmin
SampleIndexMin(v) == Min({k \in DOMAIN v : \A j \in DOMAIN v : v[k] <= v[j]})

\* np.argmax(v): the first index holding the maximum
SampleIndex(v) == Min({k \in DOMAIN v : \A j \in DOMAIN v : v[j] <= v[k]})

\* An exit condition that forgets the length cap
ExitOnNewlineOnly(ch, sentence) == ch = NEWLINE

\* An exit condition that forgets the stop character
ExitOnLengthOnly(ch, sentence) == Len(sentence) > max_decoder_seq_length

\* An exit condition that stops as soon as the cap is reached
ExitAtCap(ch, sentence) ==
    ch = NEWLINE \/ Len(sentence) >= max_decoder_seq_length

\* Exit condition of the sampling loop
ExitCondition(ch, sentence) ==
    ch = NEWLINE \/ Len(sentence) > max_decoder_seq_length

---------------------------------------------------------------------------
(* decode_sequence *)

\* The globals decode_sequence reads, as the data preparation cell leaves them:
\* every target text is "\t" + field + "\n", so tab and newline are target
\* characters, and the longest target text has 2 characters exactly when no
\* further character occurs.
DecodeEnvs ==
    {e \in [chars : TargetCharSets, maxlen : 2..MaxSeqLen] :
        /\ {TAB, NEWLINE} \subseteq e.chars
        /\ (e.chars = {TAB, NEWLINE} <=> e.maxlen = 2)}

\* The data preparation cell's variables before the cell runs
PrepUnset ==
    /\ lines = <<>>
    /\ line_index = 0
    /\ input_texts = <<>>
    /\ target_texts = <<>>
    /\ input_char_set = {}
    /\ target_char_set = {}
    /\ input_characters = <<>>
    /\ num_encoder_tokens = 0
    /\ max_encoder_seq_length = 0
    /\ encoder_input_data = <<>>
    /\ decoder_input_data = <<>>
    /\ decoder_target_data = <<>>
    /\ exception = ""

\* decode_sequence before its first statement: nothing assigned, no call made
DecodeLocalsUnset ==
    /\ states_value = <<Unset, Unset>>
    /\ target_seq = <<>>
    /\ stop_condition = FALSE
    /\ decoded_sentence = <<>>
    /\ output_tokens = <<>>
    /\ h = Unset
    /\ c = Unset
    /\ sampled_token_index = Unset
    /\ sampled_char = Unset
    /\ returned = <<>>
    /\ encoder_calls = <<>>
    /\ encoder_states = <<Unset, Unset>>
    /\ decoder_call_count = 0
    /\ last_decoder_call = [target_seq |-> <<>>, states |-> <<Unset, Unset>>]

\* The MLP notebook before its first cell: no data, no model, no file
MlpUnset ==
    /\ X_train_shape = <<>>
    /\ X_test_shape = <<>>
    /\ X_normalized = FALSE
    /\ Y_columns = 0
    /\ mlp_model = "none"
    /\ evaluated = FALSE
    /\ predicted = FALSE
    /\ files = {}
    /\ weights_loaded = FALSE

\* No model object
NoModel == [origin |-> "none", epochs |-> 0]

\* The seq2seq training cell's variables before the cell runs
S2STrainUnset ==
    /\ s2s_model = NoModel
    /\ s2s_epoch = 0
    /\ s2s_val_loss = 0
    /\ s2s_stop_training = FALSE
    /\ s2s_worsened = FALSE
    /\ s2s_saved = NoModel
    /\ encoder_model = NoModel
    /\ decoder_model = NoModel

\* The MLP notebook's variables while the seq2seq notebook is the one running
FitIdle ==
    /\ MlpUnset
    /\ epoch = 0
    /\ epochs_run = 0
    /\ stop_training = FALSE
    /\ wait = 0
    /\ best = 0
    /\ val_loss = 0
    /\ hist_min = 0
    /\ hist_min_epoch = 0
    /\ hist_stale = FALSE

InitDecode ==
    /\ pc = "decode_start"
    /\ FitIdle
    /\ S2STrainUnset
    /\ file_text = <<>>
    /\ PrepUnset
    /\ \E e \in DecodeEnvs :
        /\ target_characters = Sorted(e.chars)
        /\ num_decoder_tokens = Cardinality(e.chars)
        /\ max_decoder_seq_length = e.maxlen
    /\ input_seq \in InputSeqs
    /\ DecodeLocalsUnset

\* A start target sequence left empty (all zeros)
StartTargetEmpty == [k \in 0..(num_decoder_tokens - 1) |-> 0]

\* target_seq = np.zeros((1, 1, num_decoder_tokens));
\* target_seq[0, 0, target_token_index["\t"]] = 1.0
StartTarget == OneHot(num_decoder_tokens, target_token_index(TAB))

\* states_value = encoder_model.predict(input_seq); the start target sequence;
\* stop_condition = False; decoded_sentence = ""
Encode ==
    /\ pc = "decode_start"
    /\ \E eh \in StateVals, ec \in StateVals :
        /\ states_value' = <<eh, ec>>
        /\ encoder_states' = <<eh, ec>>
    /\ encoder_calls' = Append(encoder_calls, input_seq)
    /\ target_seq' = StartTarget
    /\ stop_condition' = FALSE
    /\ decoded_sentence' = <<>>
    /\ pc' = "decode_loop"
    /\ UNCHANGED <<envVars, input_seq, output_tokens, h, c, sampled_token_index,
                   sampled_char, returned, decoder_call_count,
                   last_decoder_call, fitVars, prepVars, mlpVars, s2sVars>>

\* A state update that is left out: the states stay what they were
KeepStates(newh, newc, old) == old

\* The state update at the end of an iteration: states_value = [h, c]
UpdateStates(newh, newc, old) == <<newh, newc>>

\* The target update at the end of an iteration
UpdateTarget(idx, old) == OneHot(num_decoder_tokens, idx)

\* One iteration of "while not stop_condition"
DecoderStep ==
    /\ pc = "decode_loop"
    /\ ~stop_condition
    /\ \E out \in [0..(num_decoder_tokens - 1) -> Scores],
          newh \in StateVals, newc \in StateVals :
        LET idx == SampleIndex(out)
            ch == reverse_target_char_index(idx)
            sentence == Append(decoded_sentence, ch)
        IN  /\ output_tokens' = out
            /\ h' = newh
            /\ c' = newc
            /\ sampled_token_index' = idx
            /\ sampled_char' = ch
            /\ decoded_sentence' = sentence
            /\ stop_condition' = IF ExitCondition(ch, sentence) THEN TRUE
                                 ELSE stop_condition
            /\ target_seq' = UpdateTarget(idx, target_seq)
            /\ states_value' = UpdateStates(newh, newc, states_value)
    /\ decoder_call_count' = decoder_call_count + 1
    /\ last_decoder_call' = [target_seq |-> target_seq, states |-> states_value]
    /\ UNCHANGED <<pc, envVars, input_seq, returned, encoder_calls,
                   encoder_states, fitVars, prepVars, mlpVars, s2sVars>>

\* return decoded_sentence
Return ==
    /\ pc = "decode_loop"
    /\ stop_condition
    /\ returned' = decoded_sentence
    /\ pc' = "decode_done"
    /\ UNCHANGED <<envVars, input_seq, states_value, target_seq, stop_condition,
                   decoded_sentence, output_tokens, h, c, sampled_token_index,
                   sampled_char, encoder_calls, encoder_states,
                   decoder_call_count, last_decoder_call, fitVars, prepVars, mlpVars, s2sVars>>

NextDecode == Encode \/ DecoderStep \/ Return

SpecDecode == InitDecode /\ [][NextDecode]_vars

\* A call of decode_sequence is sequential code: it keeps running.
FairSpecDecode == SpecDecode /\ WF_vars(NextDecode)

---------------------------------------------------------------------------
(* lstm_seq2seq.ipynb: the data preparation cell                           *)

\* num_samples = 10000
num_samples == 10000

\* Largest number of data lines in the file.
MaxLines == 2

\* The fields a data line is made of: "a", "a ", " a" and the empty field.
InputFields == {<<97>>, <<97, SPACE>>, <<>>}
TargetFields == {<<97>>, <<SPACE, 97>>, <<>>}
\* Data lines "input\ttarget\tattribution", and one line with two fields only.
DataLines ==
    {i \o <<TAB>> \o t \o <<TAB, 97>> : i \in InputFields, t \in TargetFields}
        \cup {<<97, TAB, 97>>}

RECURSIVE JoinLines(_)
JoinLines(ls) ==
    IF ls = <<>> THEN <<>>
    ELSE IF Len(ls) = 1 THEN ls[1]
    ELSE ls[1] \o <<NEWLINE>> \o JoinLines(Tail(ls))

\* The files of the model: up to MaxLines data lines, the last one with or
\* without its newline.
FileTexts ==
    {JoinLines(ls) \o last :
        ls \in UNION {[1..n -> DataLines] : n \in 0..MaxLines},
        last \in {<<>>, <<NEWLINE>>}}

\* s.split(sep) for a one-character separator
RECURSIVE SplitFrom(_, _, _, _)
SplitFrom(s, sep, k, cur) ==
    IF k > Len(s) THEN <<cur>>
    ELSE IF s[k] = sep THEN <<cur>> \o SplitFrom(s, sep, k + 1, <<>>)
    ELSE SplitFrom(s, sep, k + 1, Append(cur, s[k]))

Split(s, sep) == SplitFrom(s, sep, 1, <<>>)

\* max([len(txt) for txt in texts]) of a non-empty list
MaxLen(texts) ==
    CHOOSE n \in {Len(texts[k]) : k \in 1..Len(texts)} :
        \A k \in 1..Len(texts) : Len(texts[k]) <= n

\* np.zeros((n, steps, tokens))
Zeros(n, steps, tokens) ==
    [i \in 0..(n - 1) |-> [t \in 0..(steps - 1) |-> [k \in 0..(tokens - 1) |-> 0]]]

\* A loop over every element of lines, the last one included
LoadCountAll == IF num_samples <= Len(lines) THEN num_samples
                ELSE Len(lines)

\* min(num_samples, len(lines) - 1): the number of lines the loop loads
LoadCount == IF num_samples <= Len(lines) - 1 THEN num_samples
             ELSE Len(lines) - 1

InitPrep ==
    /\ pc = "prep_start"
    /\ file_text \in FileTexts
    /\ PrepUnset
    /\ target_characters = <<>>
    /\ num_decoder_tokens = 0
    /\ max_decoder_seq_length = 0
    /\ input_seq = 0
    /\ DecodeLocalsUnset
    /\ FitIdle
    /\ S2STrainUnset

\* The empty lists and sets, and lines = f.read().split("\n")
ReadFile ==
    /\ pc = "prep_start"
    /\ input_texts' = <<>>
    /\ target_texts' = <<>>
    /\ input_char_set' = {}
    /\ target_char_set' = {}
    /\ lines' = Split(file_text, NEWLINE)
    /\ line_index' = 0
    /\ pc' = "prep_load"
    /\ UNCHANGED <<file_text, input_characters, num_encoder_tokens,
                   max_encoder_seq_length, encoder_input_data,
                   decoder_input_data, decoder_target_data, exception,
                   envVars, decodeVars, fitVars, mlpVars, s2sVars>>

\* A target text that lacks the end character
WrapTargetNoEnd(field) == <<TAB>> \o field

\* target_text = "\t" + target_text + "\n"
WrapTarget(field) == <<TAB>> \o field \o <<NEWLINE>>

\* One iteration of "for line in lines[: min(num_samples, len(lines) - 1)]"
LoadLine ==
    /\ pc = "prep_load"
    /\ line_index < LoadCount
    /\ LET fields == Split(lines[line_index + 1], TAB)
       IN  IF Len(fields) # 3
           THEN \* the unpacking into three names fails
                /\ exception' = "ValueError"
                /\ pc' = "prep_end"
                /\ UNCHANGED <<input_texts, target_texts, input_char_set,
                               target_char_set, line_index>>
           ELSE LET input_text == fields[1]
                    target_text == WrapTarget(fields[2])
                IN  /\ input_texts' = Append(input_texts, input_text)
                    /\ target_texts' = Append(target_texts, target_text)
                    /\ input_char_set' = input_char_set \cup
                          {input_text[k] : k \in 1..Len(input_text)}
                    /\ target_char_set' = target_char_set \cup
                          {target_text[k] : k \in 1..Len(target_text)}
                    /\ line_index' = line_index + 1
                    /\ UNCHANGED <<pc, exception>>
    /\ UNCHANGED <<file_text, lines, input_characters, num_encoder_tokens,
                   max_encoder_seq_length, encoder_input_data,
                   decoder_input_data, decoder_target_data,
                   envVars, decodeVars, fitVars, mlpVars, s2sVars>>

\* After the loop: the sorted character lists, the token counts and the
\* maximal lengths (max() of an empty list raises ValueError)
BuildIndex ==
    /\ pc = "prep_load"
    /\ line_index = LoadCount
    /\ input_characters' = Sorted(input_char_set)
    /\ target_characters' = Sorted(target_char_set)
    /\ num_encoder_tokens' = Cardinality(input_char_set)
    /\ num_decoder_tokens' = Cardinality(target_char_set)
    /\ IF input_texts = <<>>
       THEN /\ exception' = "ValueError"
            /\ pc' = "prep_end"
            /\ UNCHANGED <<max_encoder_seq_length, max_decoder_seq_length>>
       ELSE /\ max_encoder_seq_length' = MaxLen(input_texts)
            /\ max_decoder_seq_length' = MaxLen(target_texts)
            /\ pc' = "prep_alloc"
            /\ UNCHANGED exception
    /\ UNCHANGED <<file_text, lines, line_index, input_texts, target_texts,
                   input_char_set, target_char_set, encoder_input_data,
                   decoder_input_data, decoder_target_data,
                   decodeVars, fitVars, mlpVars, s2sVars>>

\* The three np.zeros arrays
Allocate ==
    /\ pc = "prep_alloc"
    /\ encoder_input_data' =
          Zeros(Len(input_texts), max_encoder_seq_length, num_encoder_tokens)
    /\ decoder_input_data' =
          Zeros(Len(input_texts), max_decoder_seq_length, num_decoder_tokens)
    /\ decoder_target_data' =
          Zeros(Len(input_texts), max_decoder_seq_length, num_decoder_tokens)
    /\ pc' = "prep_stray_name"
    /\ UNCHANGED <<file_text, lines, line_index, input_texts, target_texts,
                   input_char_set, target_char_set, input_characters,
                   num_encoder_tokens, max_encoder_seq_length, exception,
                   envVars, decodeVars, fitVars, mlpVars, s2sVars>>

\* The expression statement "w" between the allocation and the vectorization
\* loop: no cell of the notebook binds the name w, so evaluating it raises
\* NameError and the cell ends there; the loop below it is never run.
StrayName ==
    /\ pc = "prep_stray_name"
    /\ exception' = "NameError"
    /\ pc' = "prep_end"
    /\ UNCHANGED <<file_text, lines, line_index, input_texts, target_texts,
                   input_char_set, target_char_set, input_characters,
                   num_encoder_tokens, max_encoder_seq_length,
                   encoder_input_data, decoder_input_data,
                   decoder_target_data, envVars, decodeVars, fitVars, mlpVars, s2sVars>>

NextPrep == ReadFile \/ LoadLine \/ BuildIndex \/ Allocate \/ StrayName

SpecPrep == InitPrep /\ [][NextPrep]_vars

---------------------------------------------------------------------------
(* keras_introduction.ipynb: model.fit(..., epochs=50,                     *)
(* validation_data=..., callbacks=[EarlyStopping(patience=7)])             *)

\* epochs=50
Epochs == 50
\* EarlyStopping(patience=7)
Patience == 7
\* np.Inf, the callback's best before any epoch; also a val_loss of inf
Inf == 1000000

\* A val_loss is one of 0..MaxLoss, or inf.
MaxLoss == 8
LossVals == 0..MaxLoss \cup {Inf}

\* The seq2seq notebook's variables while the MLP notebook is the one running
Seq2SeqIdle ==
    /\ target_characters = <<>>
    /\ num_decoder_tokens = 0
    /\ max_decoder_seq_length = 0
    /\ input_seq = 0
    /\ DecodeLocalsUnset
    /\ file_text = <<>>
    /\ PrepUnset
    /\ S2STrainUnset

\* The MLP notebook when model.fit is called: the data loaded, flattened,
\* normalized and one-hot encoded, the model defined and compiled
MlpReadyToFit ==
    /\ X_train_shape = <<50000, 3072>>
    /\ X_test_shape = <<10000, 3072>>
    /\ X_normalized = TRUE
    /\ Y_columns = 10
    /\ mlp_model = "compiled"
    /\ evaluated = FALSE
    /\ predicted = FALSE
    /\ files = {}
    /\ weights_loaded = FALSE

InitFit ==
    /\ pc = "fit_start"
    /\ Seq2SeqIdle
    /\ MlpReadyToFit
    /\ epoch = 0
    /\ epochs_run = 0
    /\ stop_training = FALSE
    /\ wait = 0
    /\ best = 0
    /\ val_loss = 0
    /\ hist_min = Inf
    /\ hist_min_epoch = 0
    /\ hist_stale = FALSE

\* An improvement test that also counts a tie
IsImprovementOrTie(current, reference) == current <= reference

\* monitor defaults to val_loss, mode auto to min, min_delta to 0:
\* an improvement is a strictly smaller value
IsImprovement(current, reference) == current < reference

\* A patience test that waits one epoch too long
PatienceExceeded(w) == w > Patience

\* wait >= patience
PatienceReached(w) == w >= Patience

\* EarlyStopping.on_train_begin
OnTrainBegin == [wait |-> 0, best |-> Inf, stop_training |-> FALSE]

\* EarlyStopping.on_epoch_end(epoch, logs) with logs["val_loss"] = current
OnEpochEnd(cb, ep, current) ==
    LET improved == IsImprovement(current, cb.best)
        newwait == IF improved THEN 0 ELSE cb.wait + 1
    IN  [wait |-> newwait,
         best |-> IF improved THEN current ELSE cb.best,
         stop_training |-> \/ cb.stop_training
                           \/ (PatienceReached(newwait) /\ ep > 0)]

\* A loop over range(epochs + 1)
EpochsLeftOffByOne(ep) == ep < Epochs + 1

\* for epoch in range(epochs)
EpochsLeft(ep) == ep < Epochs

\* model.fit up to its first epoch: callbacks.on_train_begin()
FitBegin ==
    /\ pc = "fit_start"
    /\ wait' = OnTrainBegin.wait
    /\ best' = OnTrainBegin.best
    /\ stop_training' = OnTrainBegin.stop_training
    /\ epoch' = 0
    /\ pc' = "fit_loop"
    /\ UNCHANGED <<epochs_run, val_loss, hist_min, hist_min_epoch, hist_stale,
                   envVars, prepVars, decodeVars, mlpVars, s2sVars>>

\* One epoch: training, validation (any val_loss), callbacks.on_epoch_end,
\* then "if self.stop_training: break"
RunEpoch ==
    /\ pc = "fit_loop"
    /\ EpochsLeft(epoch)
    /\ ~stop_training
    /\ \E current \in LossVals :
        LET cb == OnEpochEnd([wait |-> wait, best |-> best,
                              stop_training |-> stop_training], epoch, current)
            newmin == current < hist_min
            minepoch == IF newmin THEN epoch + 1 ELSE hist_min_epoch
        IN  /\ val_loss' = current
            /\ wait' = cb.wait
            /\ best' = cb.best
            /\ stop_training' = cb.stop_training
            /\ epoch' = IF cb.stop_training THEN epoch ELSE epoch + 1
            /\ hist_min' = IF newmin THEN current ELSE hist_min
            /\ hist_min_epoch' = minepoch
            /\ hist_stale' = (hist_stale \/ (epoch + 1) - minepoch >= 7)
    /\ epochs_run' = epochs_run + 1
    /\ UNCHANGED <<pc, envVars, prepVars, decodeVars, mlpVars, s2sVars>>

\* The loop has ended (range exhausted, or break): fit returns the History
FitReturn ==
    /\ pc = "fit_loop"
    /\ (~EpochsLeft(epoch) \/ stop_training)
    /\ pc' = "fit_done"
    /\ UNCHANGED <<fitVars, envVars, prepVars, decodeVars, mlpVars, s2sVars>>

NextFit == FitBegin \/ RunEpoch \/ FitReturn

SpecFit == InitFit /\ [][NextFit]_vars

\* model.fit is sequential code and every epoch ends: it keeps running.
FairSpecFit == SpecFit /\ WF_vars(NextFit)

\* The val_loss column of the notebook's recorded training log, times 10000
LoggedValLoss ==
    <<19140, 19091, 19059, 19148, 18966, 19039, 19057, 19137, 18966, 18828,
      18530, 18369, 18236, 18113, 17987, 17848, 17843, 17708, 17406, 17139,
      17124, 17223, 17059, 17266, 17077, 17217, 17157, 17092, 17001, 17051,
      16940, 16756, 16754, 16936, 17030, 16593, 16834, 16368, 16654, 16495,
      16682, 16326, 16659, 16502, 16457, 16449, 16477, 16721, 16388>>

\* The fit loop run on a given sequence of val_loss values, from epoch ep
\* (0-based) with the callback in state cb: the number of epochs run.
RECURSIVE FitOn(_, _, _)
FitOn(losses, ep, cb) ==
    IF ~EpochsLeft(ep) \/ ep >= Len(losses) THEN ep
    ELSE LET cb2 == OnEpochEnd(cb, ep, losses[ep + 1])
         IN  IF cb2.stop_training THEN ep + 1 ELSE FitOn(losses, ep + 1, cb2)

---------------------------------------------------------------------------
(* keras_introduction.ipynb: the cells of the notebook, top to bottom       *)

\* labels = 10
labels == 10

\* The number of elements of an array of the given shape
RECURSIVE Size(_)
Size(shape) == IF shape = <<>> THEN 1 ELSE Head(shape) * Size(Tail(shape))

\* a.reshape(new): the new shape, given that it holds as many elements
ReshapeTo(shape, new) == IF Size(shape) = Size(new) THEN new ELSE shape

\* What the MLP cells leave alone
MlpOthers == <<envVars, prepVars, decodeVars, fitVars, s2sVars>>

InitMlp ==
    /\ pc = "mlp_start"
    /\ Seq2SeqIdle
    /\ MlpUnset
    /\ epoch = 0
    /\ epochs_run = 0
    /\ stop_training = FALSE
    /\ wait = 0
    /\ best = 0
    /\ val_loss = 0
    /\ hist_min = Inf
    /\ hist_min_epoch = 0
    /\ hist_stale = FALSE

\* (X_train, y_train), (X_test, y_test) = cifar10.load_data()
LoadData ==
    /\ pc = "mlp_start"
    /\ X_train_shape' = <<50000, 32, 32, 3>>
    /\ X_test_shape' = <<10000, 32, 32, 3>>
    /\ pc' = "mlp_reshape"
    /\ UNCHANGED <<X_normalized, Y_columns, mlp_model, evaluated, predicted,
                   files, weights_loaded, MlpOthers>>

\* X_train.reshape(50000, 3072) and X_test.reshape(10000, 3072)
FlattenImages ==
    /\ pc = "mlp_reshape"
    /\ X_train_shape' = ReshapeTo(X_train_shape, <<50000, 3072>>)
    /\ X_test_shape' = ReshapeTo(X_test_shape, <<10000, 3072>>)
    /\ pc' = "mlp_normalize"
    /\ UNCHANGED <<X_normalized, Y_columns, mlp_model, evaluated, predicted,
                   files, weights_loaded, MlpOthers>>

\* (X - np.mean(X)) / np.std(X) for X_train and X_test
Normalize ==
    /\ pc = "mlp_normalize"
    /\ X_normalized' = TRUE
    /\ pc' = "mlp_one_hot"
    /\ UNCHANGED <<X_train_shape, X_test_shape, Y_columns, mlp_model,
                   evaluated, predicted, files, weights_loaded, MlpOthers>>

\* Y_train and Y_test = np_utils.to_categorical(y, labels)
ToCategorical ==
    /\ pc = "mlp_one_hot"
    /\ Y_columns' = labels
    /\ pc' = "mlp_define"
    /\ UNCHANGED <<X_train_shape, X_test_shape, X_normalized, mlp_model,
                   evaluated, predicted, files, weights_loaded, MlpOthers>>

\* model = Sequential() and the eight model.add calls
DefineModel ==
    /\ pc = "mlp_define"
    /\ mlp_model' = "defined"
    /\ pc' = "mlp_compile"
    /\ UNCHANGED <<X_train_shape, X_test_shape, X_normalized, Y_columns,
                   evaluated, predicted, files, weights_loaded, MlpOthers>>

\* optimizer = Adam(...) and model.compile(...)
CompileModel ==
    /\ pc = "mlp_compile"
    /\ mlp_model' = "compiled"
    /\ pc' = "fit_start"
    /\ UNCHANGED <<X_train_shape, X_test_shape, X_normalized, Y_columns,
                   evaluated, predicted, files, weights_loaded, MlpOthers>>

\* An evaluation run while fit is still in its loop
EvaluateDuringFit ==
    /\ pc = "fit_loop"
    /\ evaluated' = TRUE
    /\ UNCHANGED <<pc, X_train_shape, X_test_shape, X_normalized, Y_columns,
                   mlp_model, predicted, files, weights_loaded, MlpOthers>>

\* score = model.evaluate(X_test, Y_test, verbose=0), after fit has returned
Evaluate ==
    /\ pc = "fit_done"
    /\ evaluated' = TRUE
    /\ pc' = "mlp_predict"
    /\ UNCHANGED <<X_train_shape, X_test_shape, X_normalized, Y_columns,
                   mlp_model, predicted, files, weights_loaded, MlpOthers>>

\* pred = model.predict(X_test)
Predict ==
    /\ pc = "mlp_predict"
    /\ predicted' = TRUE
    /\ pc' = "mlp_save"
    /\ UNCHANGED <<X_train_shape, X_test_shape, X_normalized, Y_columns,
                   mlp_model, evaluated, files, weights_loaded, MlpOthers>>

\* model.save('model.h5') and jsonModel = model.to_json()
SaveModel ==
    /\ pc = "mlp_save"
    /\ files' = files \cup {"model.h5"}
    /\ pc' = "mlp_save_weights"
    /\ UNCHANGED <<X_train_shape, X_test_shape, X_normalized, Y_columns,
                   mlp_model, evaluated, predicted, weights_loaded, MlpOthers>>

\* model.save_weights('modelWeight.h5')
SaveWeights ==
    /\ pc = "mlp_save_weights"
    /\ files' = files \cup {"modelWeight.h5"}
    /\ pc' = "mlp_load_weights"
    /\ UNCHANGED <<X_train_shape, X_test_shape, X_normalized, Y_columns,
                   mlp_model, evaluated, predicted, weights_loaded, MlpOthers>>

\* modelWt = model.load_weights('modelWeight.h5')
LoadWeights ==
    /\ pc = "mlp_load_weights"
    /\ weights_loaded' = ("modelWeight.h5" \in files)
    /\ pc' = "mlp_inspect"
    /\ UNCHANGED <<X_train_shape, X_test_shape, X_normalized, Y_columns,
                   mlp_model, evaluated, predicted, files, MlpOthers>>

\* model.summary(), model.get_config(), model.get_weights(): read only
Inspect ==
    /\ pc = "mlp_inspect"
    /\ pc' = "mlp_end"
    /\ UNCHANGED <<mlpVars, MlpOthers>>

NextMlp ==
    \/ LoadData \/ FlattenImages \/ Normalize \/ ToCategorical
    \/ DefineModel \/ CompileModel
    \/ FitBegin \/ RunEpoch \/ FitReturn
    \/ Evaluate \/ Predict \/ SaveModel \/ SaveWeights \/ LoadWeights
    \/ Inspect

SpecMlp == InitMlp /\ [][NextMlp]_vars

---------------------------------------------------------------------------
(* lstm_seq2seq.ipynb: the training cell (compile, fit, save) and the       *)
(* sampling models cell (load_model, encoder_model, decoder_model)          *)

\* epochs = 100
epochs == 100

\* What the training and sampling-model cells leave alone
S2SOthers == <<envVars, prepVars, decodeVars, fitVars, mlpVars>>

\* The model built by keras.Model([encoder_inputs, decoder_inputs], ...):
\* not trained yet
BuiltModel == [origin |-> "built", epochs |-> 0]

\* keras.models.load_model: a new object with the saved model's weights
Restored(saved) == [origin |-> "restored", epochs |-> saved.epochs]

InitS2S ==
    /\ pc = "s2s_compile"
    /\ target_characters = <<>>
    /\ num_decoder_tokens = 0
    /\ max_decoder_seq_length = 0
    /\ input_seq = 0
    /\ DecodeLocalsUnset
    /\ file_text = <<>>
    /\ PrepUnset
    /\ FitIdle
    /\ s2s_model = BuiltModel
    /\ s2s_epoch = 0
    /\ s2s_val_loss = 0
    /\ s2s_stop_training = FALSE
    /\ s2s_worsened = FALSE
    /\ s2s_saved = NoModel
    /\ encoder_model = NoModel
    /\ decoder_model = NoModel

\* A fit that stops as soon as the val_loss gets worse
S2SStopOnWorse(current, previous) == current > previous

\* model.stop_training after an epoch: fit is called without callbacks, so
\* nothing looks at the epoch's metrics and nothing sets the flag
S2SStopTraining(current, previous) == FALSE

\* for epoch in range(epochs)
S2SEpochsLeft(ep) == ep < epochs

\* model.compile(...) and model.fit up to its first epoch
S2SCompile ==
    /\ pc = "s2s_compile"
    /\ s2s_epoch' = 0
    /\ s2s_stop_training' = FALSE
    /\ pc' = "s2s_fit_loop"
    /\ UNCHANGED <<s2s_model, s2s_val_loss, s2s_worsened, s2s_saved,
                   encoder_model, decoder_model, S2SOthers>>

\* One epoch: training, validation on the split (any val_loss), then
\* "if self.stop_training: break"
S2SRunEpoch ==
    /\ pc = "s2s_fit_loop"
    /\ S2SEpochsLeft(s2s_epoch)
    /\ ~s2s_stop_training
    /\ \E current \in LossVals :
        /\ s2s_val_loss' = current
        /\ s2s_worsened' = (s2s_worsened \/
                              (s2s_epoch > 0 /\ current > s2s_val_loss))
        /\ s2s_stop_training' = S2SStopTraining(current, s2s_val_loss)
    /\ s2s_epoch' = s2s_epoch + 1
    /\ s2s_model' = [s2s_model EXCEPT !.epochs = @ + 1]
    /\ UNCHANGED <<pc, s2s_saved, encoder_model, decoder_model, S2SOthers>>

\* The loop has ended: fit returns
S2SFitReturn ==
    /\ pc = "s2s_fit_loop"
    /\ (~S2SEpochsLeft(s2s_epoch) \/ s2s_stop_training)
    /\ pc' = "s2s_save"
    /\ UNCHANGED <<s2sVars, S2SOthers>>

\* model.save("s2s")
S2SSave ==
    /\ pc = "s2s_save"
    /\ s2s_saved' = s2s_model
    /\ pc' = "s2s_load"
    /\ UNCHANGED <<s2s_model, s2s_epoch, s2s_val_loss, s2s_stop_training,
                   s2s_worsened, encoder_model, decoder_model, S2SOthers>>

\* model = keras.models.load_model("s2s")
S2SLoad ==
    /\ pc = "s2s_load"
    /\ s2s_model' = Restored(s2s_saved)
    /\ pc' = "s2s_encoder"
    /\ UNCHANGED <<s2s_epoch, s2s_val_loss, s2s_stop_training, s2s_worsened,
                   s2s_saved, encoder_model, decoder_model, S2SOthers>>

\* encoder_model = keras.Model(encoder_inputs, encoder_states), from
\* model.input[0] and model.layers[2]
BuildEncoder ==
    /\ pc = "s2s_encoder"
    /\ encoder_model' = s2s_model
    /\ pc' = "s2s_decoder"
    /\ UNCHANGED <<s2s_model, s2s_epoch, s2s_val_loss, s2s_stop_training,
                   s2s_worsened, s2s_saved, decoder_model, S2SOthers>>

\* decoder_model = keras.Model(...), from model.input[1], model.layers[3]
\* and model.layers[4]
BuildDecoder ==
    /\ pc = "s2s_decoder"
    /\ decoder_model' = s2s_model
    /\ pc' = "s2s_done"
    /\ UNCHANGED <<s2s_model, s2s_epoch, s2s_val_loss, s2s_stop_training,
                   s2s_worsened, s2s_saved, encoder_model, S2SOthers>>

NextS2S ==
    \/ S2SCompile \/ S2SRunEpoch \/ S2SFitReturn
    \/ S2SSave \/ S2SLoad \/ BuildEncoder \/ BuildDecoder

SpecS2S == InitS2S /\ [][NextS2S]_vars

---------------------------------------------------------------------------
(* Properties of decode_sequence *)

Last(s) == s[Len(s)]
Chars(s) == {s[k] : k \in 1..Len(s)}

\* C1: decode_sequence terminates whatever the decoder returns, also when it
\* never emits the newline: every call reaches the return with stop_condition
\* set, and the number of decoder steps never passes the length cap plus one.
C1_Terminates ==
    /\ <>(pc = "decode_done" /\ stop_condition)
    /\ [](decoder_call_count <= max_decoder_seq_length + 1)

\* C1 witness: a call has returned although no newline was ever sampled.
C1_Witness ==
    /\ pc = "decode_done"
    /\ NEWLINE \notin Chars(returned)
    /\ decoder_call_count = max_decoder_seq_length + 1

\* C2: the returned sentence is never longer than max_decoder_seq_length.
C2_LengthWithinLimit ==
    pc = "decode_done" => Len(returned) <= max_decoder_seq_length

\* C3: decoding stops at the first sampled newline: a returned sentence holds
\* the newline at most once and only as its last character, and no decoder
\* call is made once a newline has been sampled.
C3_StopsAtFirstNewline ==
    /\ [](pc = "decode_done" =>
            \A k \in 1..Len(returned) :
                returned[k] = NEWLINE => k = Len(returned))
    /\ [][(NEWLINE \in Chars(decoded_sentence)) =>
            (decoder_call_count' = decoder_call_count)]_vars

\* C3 witness: a returned sentence of several characters that ends in the
\* newline.
C3_Witness ==
    /\ pc = "decode_done"
    /\ Len(returned) >= 2
    /\ Last(returned) = NEWLINE

\* C4: decode_sequence returns only for one of its two exit conditions (the
\* last character is the newline, or the length has passed the cap), and while
\* neither holds another decoder step is taken.
C4_OnlyTwoExits ==
    LET exit(s) == \/ (Len(s) > 0 /\ Last(s) = NEWLINE)
                   \/ Len(s) > max_decoder_seq_length
    IN  /\ pc = "decode_done" => exit(returned)
        /\ (pc = "decode_loop" /\ ~exit(decoded_sentence)) => ENABLED DecoderStep

\* C4 witness: a return by the length cap alone.
C4_Witness ==
    /\ pc = "decode_done"
    /\ Last(returned) # NEWLINE
    /\ Len(returned) > max_decoder_seq_length

\* C5: sampling is greedy argmax: the character appended by a step is the
\* target character at the index where the decoder's output is largest (an
\* index of the target characters), and the returned sentence is the sampled
\* characters in sampling order.
C5_GreedyArgmax ==
    /\ [][(decoder_call_count' = decoder_call_count + 1) =>
            /\ sampled_token_index' \in 0..(Len(target_characters) - 1)
            /\ \A j \in DOMAIN output_tokens' :
                  output_tokens'[j] <= output_tokens'[sampled_token_index']
            /\ \A j \in DOMAIN output_tokens' :
                  j < sampled_token_index' =>
                      output_tokens'[j] < output_tokens'[sampled_token_index']
            /\ sampled_char' = target_characters[sampled_token_index' + 1]
            /\ decoded_sentence' = decoded_sentence \o <<sampled_char'>>]_vars
    /\ [](decoder_call_count = 0 => decoded_sentence = <<>>)
    /\ [](pc = "decode_done" => returned = decoded_sentence)

\* C5 witness: a returned sentence of two different sampled characters.
C5_Witness ==
    /\ pc = "decode_done"
    /\ Len(returned) >= 2
    /\ returned[1] # returned[2]

\* C6: the encoder is called exactly once and before any decoder call, and the
\* first decoder call gets the encoder's states and the one-hot start (tab)
\* character as its length-1 target sequence.
C6_EncodeOnceThenStart ==
    /\ Len(encoder_calls) <= 1
    /\ (decoder_call_count >= 1 \/ pc = "decode_done") =>
            encoder_calls = <<input_seq>>
    /\ decoder_call_count = 1 =>
        /\ last_decoder_call.states = encoder_states
        /\ last_decoder_call.target_seq =
              [k \in 0..(num_decoder_tokens - 1) |->
                  IF target_characters[k + 1] = TAB THEN 1 ELSE 0]

\* C6 witness: the first decoder call has been made.
C6_Witness ==
    /\ decoder_call_count = 1
    /\ encoder_states = <<1, 0>>
    /\ last_decoder_call.states = <<1, 0>>

\* C7: every decoder call after the first gets the one-hot vector of the token
\* sampled in the step before it and the [h, c] returned by the call before it.
C7_FeedsBackTokenAndStates ==
    [][(decoder_call_count >= 1 /\ decoder_call_count' = decoder_call_count + 1)
        => /\ last_decoder_call'.states = <<h, c>>
           /\ DOMAIN last_decoder_call'.target_seq = 0..(num_decoder_tokens - 1)
           /\ \A k \in 0..(num_decoder_tokens - 1) :
                 last_decoder_call'.target_seq[k] =
                     IF k = sampled_token_index THEN 1 ELSE 0]_vars

\* C7 witness: a third decoder call whose states are neither the encoder's nor
\* those of the first decoder call.
C7_Witness ==
    /\ decoder_call_count = 3
    /\ last_decoder_call.states # encoder_states
    /\ last_decoder_call.states # <<h, c>>

---------------------------------------------------------------------------
(* Properties of model.fit with EarlyStopping(patience=7) *)

\* C9: fit halts at the first epoch at whose end val_loss has brought no new
\* minimum for 7 consecutive epochs, and while fewer than 50 epochs have run it
\* halts for no other reason; the recorded log (best at epoch 42, then 7
\* epochs without improvement) ends at epoch 49.
C9_EarlyStopAfterPatience ==
    /\ (epochs_run - hist_min_epoch >= 7) =>
            (stop_training /\ epochs_run - hist_min_epoch = 7)
    /\ (stop_training \/ (pc = "fit_done" /\ epochs_run < 50)) =>
            epochs_run - hist_min_epoch = 7
    /\ FitOn(LoggedValLoss, 0, OnTrainBegin) = 49

\* C9 witness: the best value at epoch 42, training halted at epoch 49.
C9_Witness ==
    /\ pc = "fit_done"
    /\ stop_training
    /\ hist_min_epoch = 42
    /\ epochs_run = 49

\* C10: training always terminates and never runs more than 50 epochs, and
\* when every 7 consecutive epochs held an improvement of val_loss exactly 50
\* epochs are run.
C10_AtMostFiftyEpochs ==
    /\ <>(pc = "fit_done")
    /\ [](epochs_run <= 50)
    /\ []((pc = "fit_done" /\ ~hist_stale) => epochs_run = 50)

\* C10 witness: a training that ran all 50 epochs, val_loss improving in
\* every window of 7 epochs.
C10_Witness ==
    /\ pc = "fit_done"
    /\ ~hist_stale
    /\ ~stop_training
    /\ epochs_run = 50

---------------------------------------------------------------------------
(* Properties of the data preparation cell *)

\* What the cell leaves in the globals decode_sequence reads is one of
\* DecodeEnvs' shapes: the target characters are sorted, hold tab and newline,
\* and the longest target text has 2 characters exactly when no further
\* character occurs.
PrepEstablishesDecodeEnv ==
    pc \in {"prep_alloc", "prep_stray_name"} =>
        /\ target_characters = Sorted(target_char_set)
        /\ {TAB, NEWLINE} \subseteq target_char_set
        /\ num_decoder_tokens = Len(target_characters)
        /\ max_decoder_seq_length >= 2
        /\ (target_char_set = {TAB, NEWLINE} <=> max_decoder_seq_length = 2)

\* C8: teacher forcing offset: once data preparation has ended, for every
\* sample the decoder input holds the start character (tab) at position 0,
\* decoder_target_data[i, t-1, :] equals decoder_input_data[i, t, :] for
\* every t with 1 <= t < len(target_texts[i]), and the start character has
\* no counterpart in decoder_target_data.
C8_TeacherForcingOffset ==
    pc = "prep_end" =>
        \A i \in DOMAIN decoder_input_data :
            LET tab == target_token_index(TAB)
            IN  /\ decoder_input_data[i][0] = OneHot(num_decoder_tokens, tab)
                /\ \A t \in 1..(Len(target_texts[i + 1]) - 1) :
                      decoder_target_data[i][t - 1] = decoder_input_data[i][t]
                /\ \A t \in DOMAIN decoder_target_data[i] :
                      decoder_target_data[i][t][tab] = 0

\* C12: after the loading loop input_texts and target_texts have the same
\* length, entry i of both comes from line i of the file, and every target
\* text is the line's target field, unchanged, between a leading tab and a
\* trailing newline.
C12_TextsPairedAndWrapped ==
    pc \in {"prep_alloc", "prep_stray_name", "prep_end"} =>
        /\ Len(input_texts) = Len(target_texts)
        /\ Len(input_texts) <= Len(lines)
        /\ \A i \in 1..Len(input_texts) :
            LET txt == target_texts[i]
                field == SubSeq(txt, 2, Len(txt) - 1)
                head == input_texts[i] \o <<TAB>> \o field \o <<TAB>>
            IN  /\ Len(txt) >= 2
                /\ txt[1] = TAB
                /\ txt[Len(txt)] = NEWLINE
                /\ Len(lines[i]) >= Len(head)
                /\ SubSeq(lines[i], 1, Len(head)) = head

\* C12 witness: two different lines loaded, the loop over.
C12_Witness ==
    /\ pc = "prep_alloc"
    /\ Len(input_texts) = 2
    /\ input_texts[1] # input_texts[2]
    /\ target_texts[1] # target_texts[2]

\* The characters of a list of texts
TextChars(texts) ==
    UNION {{texts[i][k] : k \in 1..Len(texts[i])} : i \in 1..Len(texts)}

\* The token index dictionaries exist: the cell got past their definition.
IndexBuilt ==
    \/ pc \in {"prep_alloc", "prep_stray_name"}
    \/ pc = "prep_end" /\ exception = "NameError"

\* C15: input_token_index and target_token_index map the distinct characters
\* of the loaded texts one-to-one onto 0..n-1 in sorted character order, and
\* reverse_input_char_index / reverse_target_char_index are their inverses.
C15_TokenIndexBijections ==
    IndexBuilt =>
        LET ic == TextChars(input_texts)
            tc == TextChars(target_texts)
            ni == Cardinality(ic)
            nt == Cardinality(tc)
        IN  /\ \A ch \in ic : input_token_index(ch) \in 0..(ni - 1)
            /\ \A ch \in tc : target_token_index(ch) \in 0..(nt - 1)
            /\ \A k \in 0..(ni - 1) : \E ch \in ic : input_token_index(ch) = k
            /\ \A k \in 0..(nt - 1) : \E ch \in tc : target_token_index(ch) = k
            /\ \A ch \in ic, d \in ic :
                  ch < d => input_token_index(ch) < input_token_index(d)
            /\ \A ch \in tc, d \in tc :
                  ch < d => target_token_index(ch) < target_token_index(d)
            /\ \A ch \in ic : reverse_input_char_index(input_token_index(ch)) = ch
            /\ \A ch \in tc : reverse_target_char_index(target_token_index(ch)) = ch
            /\ \A k \in 0..(ni - 1) : input_token_index(reverse_input_char_index(k)) = k
            /\ \A k \in 0..(nt - 1) : target_token_index(reverse_target_char_index(k)) = k

\* C15 witness: the dictionaries are built over two input characters and four
\* target characters.
C15_Witness ==
    /\ IndexBuilt
    /\ Cardinality(TextChars(input_texts)) = 2
    /\ Cardinality(TextChars(target_texts)) = 4
    /\ input_token_index(97) = 1
    /\ target_token_index(97) = 3

\* The number of elements of the newline-split file content
NumLines ==
    Cardinality({k \in 1..Len(file_text) : file_text[k] = NEWLINE}) + 1

\* min(10000, NumLines - 1)
ExpectedSamples == IF 10000 <= NumLines - 1 THEN 10000 ELSE NumLines - 1

\* The loading loop ran to its end: the cell is past it and no line made the
\* unpacking fail part-way.
LoadingLoopCompleted ==
    /\ pc \in {"prep_alloc", "prep_stray_name", "prep_end"}
    /\ ~(exception = "ValueError" /\ Len(input_texts) < ExpectedSamples)

Ones(row) == Cardinality({k \in DOMAIN row : row[k] = 1})

\* C13: once the data preparation cell has ended, every row [i, t, :] of
\* encoder_input_data and of decoder_input_data holds exactly one 1: at the
\* index of character t of the text when t < len(text), at the index of the
\* space character otherwise.
C13_InputRowsOneHot ==
    pc = "prep_end" =>
        /\ \A i \in DOMAIN encoder_input_data :
              \A t \in DOMAIN encoder_input_data[i] :
                 LET row == encoder_input_data[i][t]
                     txt == input_texts[i + 1]
                 IN  /\ Ones(row) = 1
                     /\ row[input_token_index(IF t < Len(txt) THEN txt[t + 1]
                                              ELSE SPACE)] = 1
        /\ \A i \in DOMAIN decoder_input_data :
              \A t \in DOMAIN decoder_input_data[i] :
                 LET row == decoder_input_data[i][t]
                     txt == target_texts[i + 1]
                 IN  /\ Ones(row) = 1
                     /\ row[target_token_index(IF t < Len(txt) THEN txt[t + 1]
                                               ELSE SPACE)] = 1

\* C14: once the data preparation cell has ended, for every sample i with a
\* target text of length L the row decoder_target_data[i, t, :] holds exactly
\* one 1: at the index of target_text[t+1] for t < L-1, at the index of the
\* space character from L-1 on; the newline is the last target before the
\* padding.
C14_TargetRowsOneHot ==
    pc = "prep_end" =>
        \A i \in DOMAIN decoder_target_data :
            LET txt == target_texts[i + 1]
                L == Len(txt)
            IN  /\ \A t \in DOMAIN decoder_target_data[i] :
                      LET row == decoder_target_data[i][t]
                      IN  /\ Ones(row) = 1
                          /\ row[target_token_index(IF t < L - 1 THEN txt[t + 2]
                                                    ELSE SPACE)] = 1
                /\ decoder_target_data[i][L - 2][target_token_index(NEWLINE)] = 1

\* The cells before model.fit leave the notebook in the state InitFit starts
\* from.
MlpEstablishesInitFit == pc = "fit_start" => InitFit

\* Positions of the MLP notebook at which fit has returned
TrainingEnded ==
    pc \in {"fit_done", "mlp_predict", "mlp_save", "mlp_save_weights",
            "mlp_load_weights", "mlp_inspect", "mlp_end"}

\* Positions of the MLP notebook at which fit has been called
FitCalled == pc = "fit_loop" \/ TrainingEnded

\* The order of the MLP notebook's steps, read off its state
MlpStepsInOrder ==
    /\ X_normalized => X_train_shape = <<50000, 3072>>
    /\ X_normalized => X_test_shape = <<10000, 3072>>
    /\ Y_columns # 0 => X_normalized
    /\ mlp_model # "none" => Y_columns = 10
    /\ FitCalled => mlp_model = "compiled"
    /\ epochs_run > 0 => FitCalled
    /\ evaluated => TrainingEnded
    /\ predicted => evaluated
    /\ "model.h5" \in files => predicted
    /\ "modelWeight.h5" \in files => "model.h5" \in files
    /\ weights_loaded => "modelWeight.h5" \in files

\* C11: the MLP notebook is a strictly sequential pipeline: loading, reshape
\* to (N, 3072), normalization and one-hot encoding are complete before fit is
\* called; evaluation, prediction, saving the model, saving the weights and
\* reloading the weights happen in that order and only after fit has returned,
\* and no epoch is trained once fit has returned.
C11_SequentialPipeline ==
    /\ []MlpStepsInOrder
    /\ [][(TrainingEnded => epochs_run' = epochs_run)]_vars

\* C11 witness: the whole notebook has run, fit having stopped early.
C11_Witness ==
    /\ pc = "mlp_end"
    /\ weights_loaded
    /\ stop_training
    /\ epochs_run = 8

\* Positions at which the seq2seq model.fit has returned
S2SFitOver ==
    pc \in {"s2s_save", "s2s_load", "s2s_encoder", "s2s_decoder", "s2s_done"}

\* The model after 100 epochs, as built and as restored from "s2s"
Trained100 == [origin |-> "built", epochs |-> 100]
Restored100 == [origin |-> "restored", epochs |-> 100]

\* What every state of the training and sampling-model cells shows
S2SOrder ==
    /\ ~s2s_stop_training
    /\ S2SFitOver => s2s_epoch = 100
    /\ s2s_saved # NoModel =>
          (S2SFitOver /\ pc # "s2s_save" /\ s2s_saved = Trained100)
    /\ encoder_model # NoModel =>
          (encoder_model = Restored100 /\ s2s_saved = Trained100)
    /\ decoder_model # NoModel =>
          (decoder_model = Restored100 /\ s2s_saved = Trained100)

\* C17: the seq2seq fit has no early stopping: inside the loop every step
\* below 100 epochs is another epoch, whatever the val_loss, so fit returns
\* after exactly 100 epochs; the model is saved to "s2s" only after fit has
\* returned, and encoder_model and decoder_model are built only from the model
\* restored from that save.
C17_NoEarlyStopSaveThenRestore ==
    /\ []S2SOrder
    /\ [][((pc = "s2s_fit_loop" /\ s2s_epoch < 100) =>
             (pc' = "s2s_fit_loop" /\ s2s_epoch' = s2s_epoch + 1))]_vars

\* C17 witness: both sampling models are built, after a training whose
\* val_loss got worse on the way and ended at inf.
C17_Witness ==
    /\ pc = "s2s_done"
    /\ s2s_worsened
    /\ s2s_val_loss = Inf
    /\ s2s_epoch = 100
    /\ encoder_model = Restored100
    /\ decoder_model = Restored100

===========================================================================
